---- MODULE Spec2Model ----
(***************************************************************************)
(* A model of atom-date-normalizer: the text cleaner (date_clean), the     *)
(* pattern registry (add_patterns), the pattern handlers and the fallback  *)
(* templates (date_parse), and the entry point with its sanity filter      *)
(* (parse_date_string, is_sane_date).                                      *)
(*                                                                         *)
(* Python strings are TLA+ strings; a character is a string of length 1.   *)
(***************************************************************************)
EXTENDS Integers, Sequences, FiniteSets, TLC

VARIABLES patterns, pc, date_str, date_str_clean, r, via, exc, ret, recleaned,
          libc_pads_year,
          records, position, results, malformed_dates, error_log, error_log_file

\* what parse_csv works on: the records of the CSV and its place in them, its
\* two lists, args.error_log and the file handle_error_log writes
batch == <<records, position, results, malformed_dates, error_log, error_log_file>>

vars == <<patterns, pc, date_str, date_str_clean, r, via, exc, ret, recleaned,
          libc_pads_year, batch>>

(***************************************************************************)
(* Characters and the str methods the code calls.                          *)
(***************************************************************************)
Digit == {"0", "1", "2", "3", "4", "5", "6", "7", "8", "9"}

DigitSeq == <<"0", "1", "2", "3", "4", "5", "6", "7", "8", "9">>

LowerAlphabet == "abcdefghijklmnopqrstuvwxyz"

UpperAlphabet == "ABCDEFGHIJKLMNOPQRSTUVWXYZ"

Chr(s, i) == SubSeq(s, i, i)

LowerLetter == {Chr(LowerAlphabet, i) : i \in 1..26}

UpperLetter == {Chr(UpperAlphabet, i) : i \in 1..26}

Whitespace == {" "}

WordChar == Digit \cup LowerLetter \cup UpperLetter \cup {"_"}

Min(a, b) == IF a < b THEN a ELSE b

\* str.lower() of one character
lower_char(c) ==
    IF c \in UpperLetter
    THEN Chr(LowerAlphabet, CHOOSE i \in 1..26 : Chr(UpperAlphabet, i) = c)
    ELSE c

\* str.upper() of one character
upper_char(c) ==
    IF c \in LowerLetter
    THEN Chr(UpperAlphabet, CHOOSE i \in 1..26 : Chr(LowerAlphabet, i) = c)
    ELSE c

RECURSIVE lower(_)
lower(s) == IF s = "" THEN "" ELSE lower_char(Head(s)) \o lower(Tail(s))

RECURSIVE lstrip(_)
lstrip(s) == IF s # "" /\ Head(s) \in Whitespace THEN lstrip(Tail(s)) ELSE s

RECURSIVE rstrip(_)
rstrip(s) ==
    IF s # "" /\ Chr(s, Len(s)) \in Whitespace
    THEN rstrip(SubSeq(s, 1, Len(s) - 1))
    ELSE s

strip(s) == rstrip(lstrip(s))

\* s[i:].startswith(p), positions counted from 1
startswith(s, p, i) ==
    /\ i + Len(p) - 1 <= Len(s)
    /\ SubSeq(s, i, i + Len(p) - 1) = p

\* p in s
contains(s, p) == \E i \in 1..(Len(s) + 1) : startswith(s, p, i)

\* str.replace(old, new): the non-overlapping occurrences, left to right
RECURSIVE replace_from(_, _, _, _)
replace_from(s, old, new, i) ==
    IF i > Len(s) THEN ""
    ELSE IF startswith(s, old, i)
         THEN new \o replace_from(s, old, new, i + Len(old))
         ELSE Chr(s, i) \o replace_from(s, old, new, i + 1)

replace(s, old, new) == replace_from(s, old, new, 1)

\* str.title(): a letter after a non-letter is upper-cased, the others lower-cased
RECURSIVE title_from(_, _)
title_from(s, i) ==
    IF i > Len(s) THEN ""
    ELSE LET prev == IF i = 1 THEN " " ELSE Chr(s, i - 1)
             cased == prev \in LowerLetter \cup UpperLetter
         IN  (IF cased THEN lower_char(Chr(s, i)) ELSE upper_char(Chr(s, i)))
                 \o title_from(s, i + 1)

title(s) == title_from(s, 1)

\* re.sub(r"\b" + word + r"\b", replacement, s): word is made of word characters,
\* so \b holds before it when the previous character is not a word character
\* and after it when the next one is not
word_at(s, word, i) ==
    /\ startswith(s, word, i)
    /\ (i = 1 \/ Chr(s, i - 1) \notin WordChar)
    /\ (i + Len(word) > Len(s) \/ Chr(s, i + Len(word)) \notin WordChar)

RECURSIVE re_sub_word_from(_, _, _, _)
re_sub_word_from(s, word, replacement, i) ==
    IF i > Len(s) THEN ""
    ELSE IF word_at(s, word, i)
         THEN replacement \o re_sub_word_from(s, word, replacement, i + Len(word))
         ELSE Chr(s, i) \o re_sub_word_from(s, word, replacement, i + 1)

re_sub_word(s, word, replacement) == re_sub_word_from(s, word, replacement, 1)

(***************************************************************************)
(* The text cleaner.                                                       *)
(***************************************************************************)
\* subs without the entry for the comma
subs_without_comma == <<
    <<"[", "">>,
    <<"]", "">>,
    <<"ca.", "">>,
    <<"ca", "">>,
    <<"-?", "-">>,
    <<"cir", "">>,
    <<".", "">> >>

subs == <<
    <<"[", "">>,
    <<"]", "">>,
    <<"ca.", "">>,
    <<"ca", "">>,
    <<"-?", "-">>,
    <<"cir", "">>,
    <<",", "">>,
    <<".", "">> >>

\* each entry <<word, replacement>> stands for (r"\bword\b", replacement)
re_subs == <<
    <<"sept", "september">>,
    <<"jan", "january">>,
    <<"feb", "february">>,
    <<"mar", "march">>,
    <<"apr", "april">>,
    <<"jun", "june">>,
    <<"jul", "july">>,
    <<"aug", "august">>,
    <<"sep", "september">>,
    <<"oct", "october">>,
    <<"nov", "november">>,
    <<"dec", "december">> >>

RECURSIVE apply_subs(_, _)
apply_subs(s, k) ==
    IF k > Len(subs) THEN s
    ELSE apply_subs(replace(s, subs[k][1], subs[k][2]), k + 1)

RECURSIVE apply_re_subs(_, _)
apply_re_subs(s, k) ==
    IF k > Len(re_subs) THEN s
    ELSE apply_re_subs(re_sub_word(s, re_subs[k][1], re_subs[k][2]), k + 1)

date_clean(s) == strip(apply_re_subs(apply_subs(lower(strip(s)), 1), 1))

(***************************************************************************)
(* Values: a bound of a range is a str or None; a handler returns a range  *)
(* or raises.                                                              *)
(***************************************************************************)
None == [type |-> "NoneType", v |-> ""]

Str(s) == [type |-> "str", v |-> s]

isinstance_str(b) == b.type = "str"

Ok(start, end) == [kind |-> "ok", val |-> <<start, end>>]

Raise(exception) == [kind |-> exception, val |-> <<None, None>>]

(***************************************************************************)
(* int(), str() and the zero-padded formats.                               *)
(***************************************************************************)
digit_value(c) == (CHOOSE i \in 1..10 : DigitSeq[i] = c) - 1

RECURSIVE int(_)
int(s) == IF s = "" THEN 0 ELSE 10 * int(SubSeq(s, 1, Len(s) - 1)) + digit_value(Chr(s, Len(s)))

RECURSIVE str(_)
str(n) == IF n < 10 THEN DigitSeq[n + 1] ELSE str(n \div 10) \o DigitSeq[(n % 10) + 1]

\* "{:02d}".format(n), "%m", "%d"
format_02d(n) == IF n < 10 THEN "0" \o str(n) ELSE str(n)

\* "%Y" of strftime: the C library decides whether a year below 1000 is
\* zero-padded (glibc does not pad, other C libraries do); libc_pads_year is
\* the choice of the platform the program runs on
format_Y(y) ==
    IF ~libc_pads_year \/ y >= 1000 THEN str(y)
    ELSE IF y >= 100 THEN "0" \o str(y)
    ELSE IF y >= 10 THEN "00" \o str(y)
    ELSE "000" \o str(y)

(***************************************************************************)
(* calendar and datetime.                                                  *)
(***************************************************************************)
month_name == <<"january", "february", "march", "april", "may", "june", "july",
                "august", "september", "october", "november", "december">>

mdays == <<31, 28, 31, 30, 31, 30, 31, 31, 30, 31, 30, 31>>

isleap(year) == year % 4 = 0 /\ (year % 100 # 0 \/ year % 400 = 0)

\* calendar.monthrange(year, month)[1]
monthrange(year, month) == mdays[month] + (IF month = 2 /\ isleap(year) THEN 1 ELSE 0)

\* datetime(year, month, day) raises ValueError unless this holds
valid_date(year, month, day) ==
    /\ year \in 1..9999
    /\ month \in 1..12
    /\ day >= 1
    /\ day <= monthrange(year, month)

datetime(year, month, day) == [ok |-> TRUE, year |-> year, month |-> month, day |-> day]

ValueError == [ok |-> FALSE, year |-> 0, month |-> 0, day |-> 0]

\* dt.strftime("%Y-%m")
strftime_Ym(dt) == format_Y(dt.year) \o "-" \o format_02d(dt.month)

\* dt.strftime("%Y-%m-%d")
strftime_Ymd(dt) == strftime_Ym(dt) \o "-" \o format_02d(dt.day)

(***************************************************************************)
(* Regular expressions.  A regex is a sequence of elements, an element a   *)
(* sequence of alternatives tried in order, an alternative a sequence of   *)
(* atoms, and an atom a character class repeated lo..hi times (hi < 0: no  *)
(* upper limit) whose text belongs to capture group g (0: to none).        *)
(* Matching backtracks as Python's re does: greedy counts first, then the  *)
(* alternatives in order.                                                  *)
(***************************************************************************)
Atom(cls, lo, hi, g) == [cls |-> cls, lo |-> lo, hi |-> hi, g |-> g]

One(atom) == << << <<atom>> >> >>

Lit(text) == [i \in 1..Len(text) |-> Atom({Chr(text, i)}, 1, 1, 0)]

Text(text) == << <<Lit(text)>> >>

\* (?: atoms )?
Optional(atoms) == << <<atoms, <<>> >> >>

\* \d{lo,hi} in group g
D(lo, hi, g) == Atom(Digit, lo, hi, g)

NoMatch == [matched |-> FALSE, end |-> 0, caps |-> [g \in 1..6 |-> <<0, 0>>]]

RECURSIVE run_length(_, _, _)
run_length(s, cls, pos) ==
    IF pos <= Len(s) /\ Chr(s, pos) \in cls THEN 1 + run_length(s, cls, pos + 1) ELSE 0

\* the match m if it is one, otherwise what backtracking finds next
or_else(m, next) == IF m.matched THEN m ELSE next

\* the most characters an atom can take at pos
most_at(s, a, pos) ==
    IF a.hi < 0 THEN run_length(s, a.cls, pos) ELSE Min(a.hi, run_length(s, a.cls, pos))

\* the captures once an atom has taken n characters at pos
capture(caps, a, pos, n) ==
    IF a.g = 0 \/ n = 0 THEN caps
    ELSE [caps EXCEPT ![a.g] = <<IF @[1] = 0 THEN pos ELSE @[1], pos + n>>]

RECURSIVE match_atoms(_, _, _, _, _, _)
RECURSIVE match_count(_, _, _, _, _, _, _, _)
RECURSIVE match_alts(_, _, _, _, _, _, _)

match_atoms(s, atoms, els, anchor_end, pos, caps) ==
    IF Len(atoms) = 0
    THEN IF Len(els) = 0
         THEN IF anchor_end /\ pos # Len(s) + 1
              THEN NoMatch
              ELSE [matched |-> TRUE, end |-> pos, caps |-> caps]
         ELSE match_alts(s, Head(els), 1, Tail(els), anchor_end, pos, caps)
    ELSE match_count(s, Head(atoms), most_at(s, Head(atoms), pos), Tail(atoms), els,
                     anchor_end, pos, caps)

match_count(s, a, n, rest, els, anchor_end, pos, caps) ==
    IF n < a.lo THEN NoMatch
    ELSE or_else(match_atoms(s, rest, els, anchor_end, pos + n, capture(caps, a, pos, n)),
                 match_count(s, a, n - 1, rest, els, anchor_end, pos, caps))

match_alts(s, alts, k, els, anchor_end, pos, caps) ==
    IF k > Len(alts) THEN NoMatch
    ELSE or_else(match_atoms(s, alts[k], els, anchor_end, pos, caps),
                 match_alts(s, alts, k + 1, els, anchor_end, pos, caps))

Regex(anchor_start, els, anchor_end) ==
    [anchor_start |-> anchor_start, els |-> els, anchor_end |-> anchor_end]

re_match(rx, s, pos) == match_atoms(s, <<>>, rx.els, rx.anchor_end, pos, NoMatch.caps)

RECURSIVE re_search_from(_, _, _)
re_search_from(rx, s, pos) ==
    IF pos > Len(s) + 1 THEN NoMatch
    ELSE IF rx.anchor_start THEN re_match(rx, s, pos)
    ELSE or_else(re_match(rx, s, pos), re_search_from(rx, s, pos + 1))

\* re.search(pattern, s)
re_search(rx, s) == re_search_from(rx, s, 1)

\* match.group(g); the group took part in the match unless group_is_none
group(s, m, g) == SubSeq(s, m.caps[g][1], m.caps[g][2] - 1)

group_is_none(m, g) == m.caps[g][1] = 0

(***************************************************************************)
(* datetime.strptime.  A format is a sequence of tokens: a directive, " "  *)
(* (any run of whitespace in the format, which strptime turns into \s+) or *)
(* a literal character.  Groups: 1 = %Y, 2 = %m, 3 = %d, 4 = %y, 5 = %B.   *)
(***************************************************************************)
NonZeroDigit == Digit \ {"0"}

\* a literal that matches without regard to case (re.IGNORECASE), in group g
LitI(text, g) == [i \in 1..Len(text) |->
                     Atom({lower_char(Chr(text, i)), upper_char(Chr(text, i))}, 1, 1, g)]

\* the month names of %B, longest first, as strptime orders them
strptime_B == <<"september", "february", "november", "december", "january", "october",
                "august", "march", "april", "june", "july", "may">>

directive(tok) ==
    CASE tok = "%Y" -> One(D(4, 4, 1))
      [] tok = "%y" -> One(D(2, 2, 4))
      [] tok = "%m" -> << << <<Atom({"1"}, 1, 1, 2), Atom({"0", "1", "2"}, 1, 1, 2)>>,
                            <<Atom({"0"}, 1, 1, 2), Atom(NonZeroDigit, 1, 1, 2)>>,
                            <<Atom(NonZeroDigit, 1, 1, 2)>> >> >>
      [] tok = "%d" -> << << <<Atom({"3"}, 1, 1, 3), Atom({"0", "1"}, 1, 1, 3)>>,
                            <<Atom({"1", "2"}, 1, 1, 3), Atom(Digit, 1, 1, 3)>>,
                            <<Atom({"0"}, 1, 1, 3), Atom(NonZeroDigit, 1, 1, 3)>>,
                            <<Atom(NonZeroDigit, 1, 1, 3)>>,
                            <<Atom({" "}, 1, 1, 0), Atom(NonZeroDigit, 1, 1, 3)>> >> >>
      [] tok = "%B" -> << [k \in 1..12 |-> LitI(strptime_B[k], 5)] >>
      [] tok = " "  -> One(Atom(Whitespace, 1, -1, 0))
      [] OTHER      -> Text(tok)

RECURSIVE format_regex(_, _)
format_regex(fmt, k) ==
    IF k > Len(fmt) THEN <<>> ELSE directive(fmt[k]) \o format_regex(fmt, k + 1)

month_number(name) == CHOOSE i \in 1..12 : month_name[i] = name

\* datetime.strptime(s, fmt): the datetime, or ValueError when the format does
\* not match, when text is left over, or when the fields are no calendar date
\* the datetime of the fields, or ValueError when they are no calendar date
checked_datetime(year, month, day) ==
    IF valid_date(year, month, day) THEN datetime(year, month, day) ELSE ValueError

\* %y: 69..99 are 1969..1999 and 00..68 are 2000..2068
pivot_year(yy) == IF yy <= 68 THEN 2000 + yy ELSE 1900 + yy

\* the fields of the match m of the format's regex against s
strptime_fields(s, m) ==
    IF ~m.matched \/ m.end # Len(s) + 1 THEN ValueError
    ELSE checked_datetime(
             IF ~group_is_none(m, 1) THEN int(group(s, m, 1))
             ELSE IF group_is_none(m, 4) THEN 1900
             ELSE pivot_year(int(group(s, m, 4))),
             IF ~group_is_none(m, 2) THEN int(group(s, m, 2))
             ELSE IF ~group_is_none(m, 5) THEN month_number(lower(group(s, m, 5)))
             ELSE 1,
             IF group_is_none(m, 3) THEN 1 ELSE int(group(s, m, 3)))

strptime(s, fmt) ==
    strptime_fields(s, re_match(Regex(TRUE, format_regex(fmt, 1), FALSE), s, 1))

(***************************************************************************)
(* The regular expressions of the pattern handlers (their @regex).         *)
(***************************************************************************)
DashOrSpace == {"-"} \cup Whitespace

\* [-\s]?
OptSep == One(Atom(DashOrSpace, 0, 1, 0))

\* ([a-z]+) in group g
Word(g) == One(Atom(LowerLetter, 1, -1, g))

\* \s+ and \s*
Spaces1 == One(Atom(Whitespace, 1, -1, 0))

Spaces0 == One(Atom(Whitespace, 0, -1, 0))

\* (?:[-\s]?(\d{1,2}))? with the digits in group g
OptDay(g) == Optional(<<Atom(DashOrSpace, 0, 1, 0), D(1, 2, g)>>)

regex1 == Regex(FALSE, One(Atom({"B", "b"}, 1, 1, 0)) \o Text("etween ") \o One(D(4, 4, 1))
                       \o Text(" ") \o One(Atom({"A", "a"}, 1, 1, 0)) \o Text("nd ")
                       \o One(D(4, 4, 2)), FALSE)

regex2 == Regex(TRUE, One(D(3, 3, 1)) \o Text("-"), TRUE)

regex3 == Regex(FALSE, One(Atom({"A", "a"}, 1, 1, 0)) \o Text("fter ") \o One(D(4, 4, 1)), FALSE)

regex4 == Regex(FALSE, One(Atom({"B", "b"}, 1, 1, 0)) \o Text("efore ") \o One(D(4, 4, 1)), FALSE)

regex5 == Regex(FALSE, One(D(4, 4, 1)) \o Text(" or ") \o One(D(4, 4, 2)), FALSE)

regex6 == Regex(FALSE, One(D(4, 4, 1)) \o Text("?"), FALSE)

regex7 == Regex(TRUE, One(D(4, 4, 1)) \o One(Atom({"'"}, 0, 1, 0))
                      \o One(Atom({"-", "s"}, 1, 1, 0)), TRUE)

regex8 == Regex(TRUE, One(D(2, 2, 1)) \o One(Atom({"?", "-"}, 1, 2, 0)), TRUE)

regex9 == Regex(TRUE, One(D(2, 2, 1)) \o Text("---") \o One(D(2, 2, 2)) \o Text("--"), TRUE)

regex10 == Regex(TRUE, One(D(3, 3, 1)) \o Text("--") \o One(D(2, 2, 2)) \o Text("--"), TRUE)

regex11 == Regex(TRUE, One(D(2, 2, 1)) \o Text("---") \o One(D(3, 3, 2)) \o Text("-"), TRUE)

regex12 == Regex(TRUE, One(D(4, 4, 1)) \o Text("-") \o One(D(2, 2, 2)) \o Text("--"), TRUE)

regex13 == Regex(TRUE, One(D(2, 2, 1)) \o Text("---") \o One(D(4, 4, 2)), TRUE)

regex14 == Regex(TRUE, One(D(3, 3, 1)) \o Text("--") \o One(D(3, 3, 2)) \o Text("-"), TRUE)

regex15 == Regex(TRUE, One(D(4, 4, 1)) \o Text("-") \o One(D(3, 3, 2)) \o Text("-"), TRUE)

regex16 == Regex(TRUE, One(D(3, 3, 1)) \o Text("--") \o One(D(4, 4, 2)), TRUE)

regex17 == Regex(TRUE, One(D(4, 4, 1)) \o One(Atom(Whitespace, 0, 1, 2)) \o Text("-")
                       \o One(Atom(Whitespace, 0, 1, 3)) \o One(D(4, 4, 4)), TRUE)

regex18 == Regex(TRUE, One(D(1, 2, 1)) \o Text("/") \o One(D(1, 2, 2)) \o Text("/")
                       \o One(D(4, 4, 3)), TRUE)

regex19 == Regex(TRUE, One(D(1, 2, 1)) \o Text("/") \o One(D(1, 2, 2)) \o Text("/")
                       \o One(D(2, 2, 3)), TRUE)

regex20 == Regex(TRUE, One(D(1, 2, 1)) \o Text("/") \o One(D(1, 2, 2)) \o Text("/")
                       \o One(D(4, 4, 3)) \o One(Atom(Whitespace, 1, 1, 0))
                       \o One(D(1, 2, 4)) \o Text("/") \o One(D(1, 2, 5)) \o Text("/")
                       \o One(D(4, 4, 6)), TRUE)

regex21 == Regex(TRUE, One(D(4, 4, 1)), TRUE)

regex22 == Regex(TRUE, One(D(4, 4, 1)) \o One(Atom(Whitespace, 1, 1, 0)) \o One(D(4, 4, 2)), TRUE)

regex23 == Regex(TRUE, One(D(4, 4, 1)) \o OptSep \o Word(2) \o Spaces1
                       \o One(D(4, 4, 3)) \o OptSep \o Word(4), TRUE)

regex24 == Regex(TRUE, One(D(4, 4, 1)) \o OptSep \o Word(2) \o OptSep \o One(D(1, 2, 3))
                       \o Spaces1
                       \o One(D(4, 4, 4)) \o OptSep \o Word(5) \o OptSep \o One(D(1, 2, 6)),
                 TRUE)

regex25 == Regex(TRUE, One(D(4, 4, 1)) \o OptSep \o Word(2) \o OptDay(3)
                       \o Spaces1
                       \o One(D(4, 4, 4)) \o OptSep \o Word(5) \o OptDay(6), TRUE)

regex26 == Regex(TRUE, One(D(4, 4, 1)) \o Spaces1 \o One(D(4, 4, 2)) \o OptSep \o Word(3)
                       \o OptDay(4), TRUE)

regex27 == Regex(TRUE, One(D(3, 3, 1)) \o Spaces0 \o Text("-") \o Spaces0
                       \o One(D(3, 3, 2)) \o Spaces0 \o Text("-"), TRUE)

\* getattr(fn, "__regex__")
regex_of(fn) ==
    CASE fn = "pattern1" -> regex1   [] fn = "pattern2" -> regex2
      [] fn = "pattern3" -> regex3   [] fn = "pattern4" -> regex4
      [] fn = "pattern5" -> regex5   [] fn = "pattern6" -> regex6
      [] fn = "pattern7" -> regex7   [] fn = "pattern8" -> regex8
      [] fn = "pattern9" -> regex9   [] fn = "pattern10" -> regex10
      [] fn = "pattern11" -> regex11 [] fn = "pattern12" -> regex12
      [] fn = "pattern13" -> regex13 [] fn = "pattern14" -> regex14
      [] fn = "pattern15" -> regex15 [] fn = "pattern16" -> regex16
      [] fn = "pattern17" -> regex17 [] fn = "pattern18" -> regex18
      [] fn = "pattern19" -> regex19 [] fn = "pattern20" -> regex20
      [] fn = "pattern21" -> regex21 [] fn = "pattern22" -> regex22
      [] fn = "pattern23" -> regex23 [] fn = "pattern24" -> regex24
      [] fn = "pattern25" -> regex25 [] fn = "pattern26" -> regex26
      [] fn = "pattern27" -> regex27

(***************************************************************************)
(* The pattern handlers: handler(ds, match), with ds its date_str, returns  *)
(* a range, or raises NormalizeDateException or (from strptime) ValueError.*)
(***************************************************************************)
\* month_lookup = {calendar.month_name[i].lower(): i for i in range(1, 13)}
in_month_lookup(name) == \E i \in 1..12 : month_name[i] = name

\* s.split(" ")[k], k = 0 or 1
RECURSIVE find(_, _, _)
find(s, c, i) == IF i > Len(s) \/ Chr(s, i) = c THEN i ELSE find(s, c, i + 1)

split_space(s, k) ==
    LET first == find(s, " ", 1)
    IN  IF k = 0 THEN SubSeq(s, 1, first - 1)
        ELSE SubSeq(s, first + 1, find(s, " ", first + 1) - 1)

pattern1(ds, match) ==
    Ok(Str(group(ds, match, 1) \o "-01-01"), Str(group(ds, match, 2) \o "-12-31"))

\* pattern2 with the decade closed on its first year
pattern2_first_year(ds, match) ==
    Ok(Str(group(ds, match, 1) \o "0-01-01"), Str(group(ds, match, 1) \o "0-12-31"))

pattern2(ds, match) ==
    Ok(Str(group(ds, match, 1) \o "0-01-01"), Str(group(ds, match, 1) \o "9-12-31"))

\* pattern3 with the bounds the other way round
pattern3_as_end(ds, match) == Ok(None, Str(group(ds, match, 1) \o "-12-31"))

pattern3(ds, match) == Ok(Str(group(ds, match, 1) \o "-12-31"), None)

pattern4(ds, match) == Ok(None, Str(group(ds, match, 1) \o "-01-01"))

pattern5(ds, match) ==
    Ok(Str(group(ds, match, 1) \o "-01-01"), Str(group(ds, match, 2) \o "-12-31"))

pattern6(ds, match) ==
    Ok(Str(group(ds, match, 1) \o "-01-01"), Str(group(ds, match, 1) \o "-12-31"))

pattern7(ds, match) ==
    Ok(Str(group(ds, match, 1) \o "-01-01"),
       Str(SubSeq(group(ds, match, 1), 1, 3) \o "9-12-31"))

pattern8(ds, match) ==
    Ok(Str(group(ds, match, 1) \o "00-01-01"), Str(group(ds, match, 1) \o "99-12-31"))

pattern9(ds, match) ==
    Ok(Str(group(ds, match, 1) \o "00-01-01"), Str(group(ds, match, 2) \o "99-12-31"))

pattern10(ds, match) ==
    Ok(Str(group(ds, match, 1) \o "0-01-01"), Str(group(ds, match, 2) \o "99-12-31"))

pattern11(ds, match) ==
    Ok(Str(group(ds, match, 1) \o "00-01-01"), Str(group(ds, match, 2) \o "9-12-31"))

pattern12(ds, match) ==
    Ok(Str(group(ds, match, 1) \o "-01-01"), Str(group(ds, match, 2) \o "99-12-31"))

pattern13(ds, match) ==
    Ok(Str(group(ds, match, 1) \o "00-01-01"), Str(group(ds, match, 2) \o "-12-31"))

pattern14(ds, match) ==
    Ok(Str(group(ds, match, 1) \o "0-01-01"), Str(group(ds, match, 2) \o "9-12-31"))

pattern15(ds, match) ==
    Ok(Str(group(ds, match, 1) \o "-01-01"), Str(group(ds, match, 2) \o "9-12-31"))

pattern16(ds, match) ==
    Ok(Str(group(ds, match, 1) \o "0-01-01"), Str(group(ds, match, 2) \o "-12-31"))

pattern17(ds, match) ==
    Ok(Str(group(ds, match, 1) \o "-01-01"), Str(group(ds, match, 4) \o "-12-31"))

pattern18(ds, match) ==
    LET parsed_date == strptime(ds, <<"%m", "/", "%d", "/", "%Y">>)
    IN  IF ~parsed_date.ok THEN Raise("ValueError")
        ELSE Ok(Str(strftime_Ymd(parsed_date)), None)

pattern19(ds, match) ==
    LET parsed_date == strptime(ds, <<"%m", "/", "%d", "/", "%y">>)
    IN  IF ~parsed_date.ok THEN Raise("ValueError")
        ELSE Ok(Str(strftime_Ymd(parsed_date)), None)

pattern20(ds, match) ==
    LET parsed_date_one == strptime(split_space(ds, 0), <<"%m", "/", "%d", "/", "%Y">>)
        parsed_date_two == strptime(split_space(ds, 1), <<"%m", "/", "%d", "/", "%Y">>)
    IN  IF ~parsed_date_one.ok \/ ~parsed_date_two.ok THEN Raise("ValueError")
        ELSE Ok(Str(strftime_Ymd(parsed_date_one)), Str(strftime_Ymd(parsed_date_two)))

\* pattern21 with the year closed on its first day
pattern21_first_day(ds, match) ==
    Ok(Str(group(ds, match, 1) \o "-01-01"), Str(group(ds, match, 1) \o "-01-01"))

pattern21(ds, match) ==
    Ok(Str(group(ds, match, 1) \o "-01-01"), Str(group(ds, match, 1) \o "-12-31"))

\* pattern22 with the end taken from the first year
pattern22_first_group(ds, match) ==
    Ok(Str(group(ds, match, 1) \o "-01-01"), Str(group(ds, match, 1) \o "-12-31"))

pattern22(ds, match) ==
    Ok(Str(group(ds, match, 1) \o "-01-01"), Str(group(ds, match, 2) \o "-12-31"))

\* pattern23 with the month lengths of a common year
pattern23_common_year(ds, match) ==
    IF ~in_month_lookup(lower(group(ds, match, 2))) \/ ~in_month_lookup(lower(group(ds, match, 4)))
    THEN Raise("NormalizeDateException")
    ELSE Ok(Str(str(int(group(ds, match, 1))) \o "-"
                    \o format_02d(month_number(lower(group(ds, match, 2)))) \o "-01"),
            Str(str(int(group(ds, match, 3))) \o "-"
                    \o format_02d(month_number(lower(group(ds, match, 4)))) \o "-"
                    \o format_02d(mdays[month_number(lower(group(ds, match, 4)))])))

pattern23(ds, match) ==
    LET y1 == int(group(ds, match, 1))
        m1_name == lower(group(ds, match, 2))
        y2 == int(group(ds, match, 3))
        m2_name == lower(group(ds, match, 4))
    IN  IF ~in_month_lookup(m1_name) \/ ~in_month_lookup(m2_name)
        THEN Raise("NormalizeDateException")
        ELSE LET m1 == month_number(m1_name)
                 m2 == month_number(m2_name)
                 eom2 == monthrange(y2, m2)
             IN  Ok(Str(str(y1) \o "-" \o format_02d(m1) \o "-01"),
                    Str(str(y2) \o "-" \o format_02d(m2) \o "-" \o format_02d(eom2)))

pattern24(ds, match) ==
    LET y1 == int(group(ds, match, 1))
        m1_name == lower(group(ds, match, 2))
        d1 == int(group(ds, match, 3))
        y2 == int(group(ds, match, 4))
        m2_name == lower(group(ds, match, 5))
        d2 == int(group(ds, match, 6))
    IN  IF ~in_month_lookup(m1_name) \/ ~in_month_lookup(m2_name)
        THEN Raise("NormalizeDateException")
        ELSE LET m1 == month_number(m1_name)
                 m2 == month_number(m2_name)
             IN  IF ~valid_date(y1, m1, d1) \/ ~valid_date(y2, m2, d2)
                 THEN Raise("NormalizeDateException")
                 ELSE Ok(Str(strftime_Ymd(datetime(y1, m1, d1))),
                         Str(strftime_Ymd(datetime(y2, m2, d2))))

pattern25(ds, match) ==
    LET y1 == int(group(ds, match, 1))
        m1_name == lower(group(ds, match, 2))
        y2 == int(group(ds, match, 4))
        m2_name == lower(group(ds, match, 5))
    IN  IF ~in_month_lookup(m1_name) \/ ~in_month_lookup(m2_name)
        THEN Raise("NormalizeDateException")
        ELSE LET m1 == month_number(m1_name)
                 m2 == month_number(m2_name)
                 d1 == IF group_is_none(match, 3) THEN 1 ELSE int(group(ds, match, 3))
                 d2 == IF group_is_none(match, 6) THEN monthrange(y2, m2)
                       ELSE int(group(ds, match, 6))
             IN  IF ~valid_date(y1, m1, d1) \/ ~valid_date(y2, m2, d2)
                 THEN Raise("NormalizeDateException")
                 ELSE Ok(Str(strftime_Ymd(datetime(y1, m1, d1))),
                         Str(strftime_Ymd(datetime(y2, m2, d2))))

pattern26(ds, match) ==
    LET y1 == int(group(ds, match, 1))
        y2 == int(group(ds, match, 2))
        m2_name == lower(group(ds, match, 3))
    IN  IF ~in_month_lookup(m2_name) THEN Raise("NormalizeDateException")
        ELSE LET m2 == month_number(m2_name)
                 d2 == IF group_is_none(match, 4) THEN monthrange(y2, m2)
                       ELSE int(group(ds, match, 4))
             IN  IF ~valid_date(y2, m2, d2) THEN Raise("NormalizeDateException")
                 ELSE Ok(Str(str(y1) \o "-01-01"), Str(strftime_Ymd(datetime(y2, m2, d2))))

pattern27(ds, match) ==
    Ok(Str(group(ds, match, 1) \o "0-01-01"), Str(group(ds, match, 2) \o "9-12-31"))

\* fn(ds, match) for the handler function named fn
call_handler(fn, ds, match) ==
    CASE fn = "pattern1" -> pattern1(ds, match)
      [] fn = "pattern2" -> pattern2(ds, match)
      [] fn = "pattern3" -> pattern3(ds, match)
      [] fn = "pattern4" -> pattern4(ds, match)
      [] fn = "pattern5" -> pattern5(ds, match)
      [] fn = "pattern6" -> pattern6(ds, match)
      [] fn = "pattern7" -> pattern7(ds, match)
      [] fn = "pattern8" -> pattern8(ds, match)
      [] fn = "pattern9" -> pattern9(ds, match)
      [] fn = "pattern10" -> pattern10(ds, match)
      [] fn = "pattern11" -> pattern11(ds, match)
      [] fn = "pattern12" -> pattern12(ds, match)
      [] fn = "pattern13" -> pattern13(ds, match)
      [] fn = "pattern14" -> pattern14(ds, match)
      [] fn = "pattern15" -> pattern15(ds, match)
      [] fn = "pattern16" -> pattern16(ds, match)
      [] fn = "pattern17" -> pattern17(ds, match)
      [] fn = "pattern18" -> pattern18(ds, match)
      [] fn = "pattern19" -> pattern19(ds, match)
      [] fn = "pattern20" -> pattern20(ds, match)
      [] fn = "pattern21" -> pattern21(ds, match)
      [] fn = "pattern22" -> pattern22(ds, match)
      [] fn = "pattern23" -> pattern23(ds, match)
      [] fn = "pattern24" -> pattern24(ds, match)
      [] fn = "pattern25" -> pattern25(ds, match)
      [] fn = "pattern26" -> pattern26(ds, match)
      [] fn = "pattern27" -> pattern27(ds, match)

(***************************************************************************)
(* The pattern registry.                                                   *)
(***************************************************************************)
\* the handler functions, in the order the module declares them
NumPatterns == 27

declared_handlers == [i \in 1..NumPatterns |-> "pattern" \o str(i)]

\* the functions in the module's namespace
module_functions ==
    {"add_patterns", "date_clean", "date_parse", "normalize_year_month_day",
     "normalize_year_month", "normalize_month_year", "normalize_month_day_year",
     "regex", "getmembers", "isfunction"}
        \cup {declared_handlers[i] : i \in 1..NumPatterns}

\* the characters of these names in code point order
CodePointOrder == "0123456789_abcdefghijklmnopqrstuvwxyz"

ord(c) == CHOOSE i \in 1..Len(CodePointOrder) : Chr(CodePointOrder, i) = c

\* a < b for Python strings
RECURSIVE str_less(_, _)
str_less(a, b) ==
    IF b = "" THEN FALSE
    ELSE IF a = "" THEN TRUE
    ELSE IF Head(a) = Head(b) THEN str_less(Tail(a), Tail(b))
    ELSE ord(Head(a)) < ord(Head(b))

RECURSIVE sorted(_)
sorted(names) ==
    IF names = {} THEN <<>>
    ELSE LET least == CHOOSE x \in names : \A y \in names \ {x} : str_less(x, y)
         IN  <<least>> \o sorted(names \ {least})

\* inspect.getmembers(module, isfunction): the names, sorted by name
getmembers == sorted(module_functions)

\* is_handler_name with "pattern" looked for anywhere in the name
is_handler_name_contains(name) == contains(name, "pattern")

is_handler_name(name) == startswith(name, "pattern", 1)

\* add_patterns(): every handler has its __regex__, so nothing is raised
add_patterns(registry) == registry \o SelectSeq(getmembers, is_handler_name)

(***************************************************************************)
(* date_parse: the registry, then the fallback templates.                  *)
(***************************************************************************)
long_months == <<"January", "February", "March", "April", "May", "June", "July",
                 "August", "September", "October", "November", "December">>

\* (parsed_date.strftime("%Y-%m-%d"), None), once strptime has not raised
exact_date(parsed_date) ==
    IF ~parsed_date.ok THEN Raise("ValueError")
    ELSE Ok(Str(strftime_Ymd(parsed_date)), None)

\* the first and the last day of parsed_date's month, once strptime has not raised
month_span(parsed_date) ==
    IF ~parsed_date.ok THEN Raise("ValueError")
    ELSE Ok(Str(strftime_Ym(parsed_date) \o "-01"),
            Str(strftime_Ym(parsed_date) \o "-"
                    \o str(monthrange(parsed_date.year, parsed_date.month))))

\* try: strptime(first format); except ValueError: strptime(second format)
first_ok_datetime(first, second) == IF first.ok THEN first ELSE second

normalize_year_month_day(s) ==
    exact_date(first_ok_datetime(strptime(s, <<"%Y", " ", "%B", " ", "%d">>),
                                 strptime(s, <<"%Y", " ", "%B", "%d">>)))

normalize_year_month(s) == month_span(strptime(s, <<"%Y", " ", "%B">>))

normalize_month_year(s) == month_span(strptime(s, <<"%B", " ", "%Y">>))

\* normalize_month_day_year with the date as the end bound too
normalize_month_day_year_closed(s) ==
    IF ~strptime(s, <<"%B", " ", "%d", " ", "%Y">>).ok THEN Raise("ValueError")
    ELSE Ok(Str(strftime_Ymd(strptime(s, <<"%B", " ", "%d", " ", "%Y">>))),
            Str(strftime_Ymd(strptime(s, <<"%B", " ", "%d", " ", "%Y">>))))

normalize_month_day_year(s) == exact_date(strptime(s, <<"%B", " ", "%d", " ", "%Y">>))

By(res, name) == [kind |-> res.kind, val |-> res.val, by |-> name]

\* try: return res; except ValueError: what follows
ok_or(res, next) == IF res.kind = "ok" THEN res ELSE next

returns_or(res, name, next) == ok_or(By(res, name), next)

\* try_templates with the month-year template left out
try_templates_without_month_year(s) ==
    returns_or(normalize_year_month_day(s), "normalize_year_month_day",
    returns_or(normalize_year_month(s), "normalize_year_month",
    returns_or(normalize_month_day_year(s), "normalize_month_day_year",
    By(Raise("pass"), ""))))

\* the four templates in the body of the month loop; "pass" when all four
\* raise ValueError
try_templates(s) ==
    returns_or(normalize_year_month_day(s), "normalize_year_month_day",
    returns_or(normalize_year_month(s), "normalize_year_month",
    returns_or(normalize_month_year(s), "normalize_month_year",
    returns_or(normalize_month_day_year(s), "normalize_month_day_year",
    By(Raise("pass"), "")))))

\* for month in long_months: if month in date_str: ...; then the final raise
RECURSIVE fallback(_, _)
fallback(s, i) ==
    IF i > Len(long_months) THEN By(Raise("NormalizeDateException"), "no match")
    ELSE IF ~contains(s, long_months[i]) THEN fallback(s, i + 1)
    ELSE ok_or(try_templates(s), fallback(s, i + 1))

\* for pattern, handler in patterns: the index of the first entry whose regex
\* is found in ds, 0 when there is none
RECURSIVE first_match(_, _, _)
first_match(registry, ds, k) ==
    IF k > Len(registry) THEN 0
    ELSE IF re_search(regex_of(registry[k]), ds).matched THEN k
    ELSE first_match(registry, ds, k + 1)

\* date_parse(ds) with the registry `registry`: the range or the exception,
\* and in "by" the handler or template that decided
\* the k-th handler of the registry decides; k = 0: the fallback does
decide(registry, ds, k) ==
    IF k > 0
    THEN By(call_handler(registry[k], ds, re_search(regex_of(registry[k]), ds)), registry[k])
    ELSE fallback(title(ds), 1)

date_parse_with(registry, ds) == decide(registry, ds, first_match(registry, ds, 1))

date_parse(ds) == date_parse_with(patterns, ds)

(***************************************************************************)
(* The entry point: is_sane_date and parse_date_string.                    *)
(***************************************************************************)
min_year == 1000

max_year == 2100

\* the body of is_sane_date, given what strptime made of each bound (looked at
\* only for a bound that is a str)
sane_datetimes(date_range, start_datetime, end_datetime) ==
    IF \/ (isinstance_str(date_range[1]) /\ ~start_datetime.ok)
       \/ (isinstance_str(date_range[2]) /\ ~end_datetime.ok)
    THEN FALSE
    ELSE /\ isinstance_str(date_range[1]) =>
                (min_year <= start_datetime.year /\ start_datetime.year <= max_year)
         /\ isinstance_str(date_range[2]) =>
                (min_year <= end_datetime.year /\ end_datetime.year <= max_year)

\* is_sane_date without the year window
is_sane_date_any_year(date_range) ==
    IF Len(date_range) = 0 THEN FALSE
    ELSE /\ isinstance_str(date_range[1]) =>
                strptime(date_range[1].v, <<"%Y", "-", "%m", "-", "%d">>).ok
         /\ isinstance_str(date_range[2]) =>
                strptime(date_range[2].v, <<"%Y", "-", "%m", "-", "%d">>).ok

is_sane_date(date_range) ==
    IF Len(date_range) = 0 THEN FALSE
    ELSE sane_datetimes(date_range,
                        strptime(date_range[1].v, <<"%Y", "-", "%m", "-", "%d">>),
                        strptime(date_range[2].v, <<"%Y", "-", "%m", "-", "%d">>))

\* what parse_date_string returns: None, or [date_str, r[0], r[1]]
ReturnNone == [is_none |-> TRUE, original |-> "", start |-> None, end |-> None]

ReturnList(original, start, end) ==
    [is_none |-> FALSE, original |-> original, start |-> start, end |-> end]

\* a None in the pair the range parser returns
NoDatetime == [ok |-> FALSE, year |-> 0, month |-> 0, day |-> 0]

\* dt.strftime('%Y-%m-%d') if isinstance(dt, datetime) else dt
to_string(dt) == IF dt = NoDatetime THEN None ELSE Str(strftime_Ymd(dt))

(***************************************************************************)
(* The inputs of the model.                                                *)
(***************************************************************************)
\* the bare years run from min_year - YearMargin to max_year + YearMargin
YearMargin == 5

\* the noise strings given to date_clean are at most this long
MaxNoiseLen == 4

format_04d(n) ==
    IF n >= 1000 THEN str(n)
    ELSE IF n >= 100 THEN "0" \o str(n)
    ELSE IF n >= 10 THEN "00" \o str(n)
    ELSE "000" \o str(n)

BareYears == {format_04d(y) : y \in (min_year - YearMargin)..(max_year + YearMargin)}

SampleYears == {"0500", "0999", "1000", "1900", "2000", "2023", "2024", "2100", "2101"}

PairYears == {"0999", "1000", "1950", "2000", "2100", "2101"}

MonthYears == {"1900", "2000", "2023", "2024"}

short_months == <<"Jan", "Feb", "Mar", "Apr", "May", "Jun", "Jul", "Aug", "Sep", "Oct",
                  "Nov", "Dec">>

Prefix2 == {a \o b : a \in Digit, b \in Digit}

Prefix3 == {p \o c : p \in Prefix2, c \in Digit}

TwoYearInputs ==
    UNION {{"between " \o a \o " and " \o b, "Between " \o a \o " And " \o b,
            a \o " or " \o b, a \o "-" \o b, a \o " - " \o b, a \o " " \o b}
           : a \in PairYears, b \in PairYears}

AfterBeforeInputs ==
    UNION {{"after " \o y, "After " \o y, "before " \o y, "Before " \o y} : y \in SampleYears}

DecadeInputs == {p \o "-" : p \in Prefix3}

CenturyInputs == {p \o suffix : p \in Prefix2, suffix \in {"-", "--", "?", "??", "-?", "?-"}}

ExactDateInputs ==
    {y \o "-" \o format_02d(m) \o "-" \o format_02d(d) :
        y \in MonthYears, m \in 1..12, d \in {1, 15, 28, 29, 30, 31}}

MonthInputs ==
    UNION {{"1999-Jan " \o y \o "-" \o short_months[m],
            "1999 " \o long_months[m] \o " " \o y \o " " \o long_months[m],
            "1997-October-05 " \o y \o "-" \o short_months[m],
            "1991 " \o y \o "-" \o short_months[m],
            "1991 " \o y \o "-" \o short_months[m] \o "-31",
            y \o " " \o short_months[m],
            long_months[m] \o " " \o y,
            y \o " " \o long_months[m] \o " 31",
            short_months[m] \o ". 30, " \o y}
           : y \in MonthYears, m \in 1..12}

OtherInputs ==
    {"unknown", "", "n.d.", "no date", "0500", "ca. 1950", "[1950]", "circa 1950",
     "c.a 1950", "[ca. 1950?]", "1950?", "1950-", "1950s", "1950's", "1950-?",
     "18---19--", "183--19--", "18---194-", "1834-19--", "18---1945", "195--196-",
     "1955-196-", "195--1960", "198- 199-", "1900, 1950", "1834-08",
     "12/25/1999", "2/30/2000", "13/01/1999", "1/5/99", "1/5/68", "2/30/99",
     "12/25/1999 12/26/1999", "12/25/1999 2/30/2000", "6/15/0500",
     "1999 or 2000 march", "1999 after 2000 march", "1999-before 2000-may",
     "1999 or 2000 x", "0500 or 2000 march", "1999-or 2000-march 5",
     "2001-November-22 2001-November-23", "2001-november-31 2001-december-01",
     "2000-Mar-14 2000-Apr-18", "1997-October 1998-June-04", "1997-foo 1998-bar",
     "0500-Mar 0600-Apr", "0500-Mar-01 0600-Apr-02", "0500 0600-May", "0000-Mar 0000-Feb",
     "May 0500", "0500 May 5", "2000 may5", "may", "2023 February 29", "mayhem 1999",
     "1999 2000", "1999 2000-foo", "1950 -2000", "1950- 2000", "1950  2000"}

CommaYearInputs == {a \o ", " \o b : a \in PairYears, b \in PairYears}

Inputs ==
    BareYears \cup TwoYearInputs \cup AfterBeforeInputs \cup DecadeInputs
        \cup CenturyInputs \cup ExactDateInputs \cup MonthInputs \cup OtherInputs
        \cup CommaYearInputs

\* what the range parser may return: a pair, each side a datetime or None
ExtDatetimes ==
    {NoDatetime, datetime(500, 6, 15), datetime(1999, 12, 31), datetime(2101, 1, 1)}

\* the range parser is opaque: the model lets it raise on every input and
\* return a range on these (whatever it returns does not depend on the input)
RangeParserInputs == OtherInputs \cup AfterBeforeInputs

NoiseAlphabet == {"c", "a", "i", "r", ".", ",", "-", "?"}

RECURSIVE NoiseStrings(_)
NoiseStrings(n) ==
    IF n = 0 THEN {""}
    ELSE NoiseStrings(n - 1) \cup {s \o c : s \in NoiseStrings(n - 1), c \in NoiseAlphabet}

CleanInputs ==
    NoiseStrings(MaxNoiseLen)
        \cup {"se.p 1950", "j,an 1950", "Sept. 1950", "Sep. 1950", "ca. 1950", "[ca. 1950]",
              " 1950 ", "ca 1950", "c.a 1950", "1950-??", "Jan. 5, 1950", "circa 1950",
              "Dec.1950", "1950 ca", "cca. 1950", "[c]a 1950", "decade", "FEB 2000"}

(***************************************************************************)
(* The program: the module is imported (add_patterns), then                *)
(* parse_date_string is called on one record after another.                *)
(***************************************************************************)
NoRange == <<None, None>>

Init ==
    /\ patterns = <<>>
    /\ pc = "import"
    /\ date_str = ""
    /\ date_str_clean = ""
    /\ r = NoRange
    /\ via = ""
    /\ exc = ""
    /\ ret = ReturnNone
    /\ recleaned = ""
    /\ libc_pads_year \in BOOLEAN
    /\ records = <<>>
    /\ position = 1
    /\ results = <<>>
    /\ malformed_dates = <<>>
    /\ error_log = FALSE
    /\ error_log_file = <<>>

\* the module's last line: add_patterns()
Import ==
    /\ pc = "import"
    /\ patterns' = add_patterns(patterns)
    /\ pc' = "idle"
    /\ UNCHANGED <<date_str, date_str_clean, r, via, exc, ret, recleaned, libc_pads_year>>
    /\ UNCHANGED batch

\* parse_date_string(x) up to the call of the range parser
Call(x) ==
    /\ pc = "idle"
    /\ date_str' = x
    /\ date_str_clean' = date_clean(x)
    /\ pc' = "try"
    /\ UNCHANGED <<patterns, r, via, exc, ret, recleaned, libc_pads_year>>
    /\ UNCHANGED batch

\* the range parser returns the pair <<a, b>>; its datetimes become strings
RangeParserReturns(a, b) ==
    /\ pc = "try"
    /\ date_str \in RangeParserInputs
    /\ r' = <<to_string(a), to_string(b)>>
    /\ via' = "daterangeparser"
    /\ pc' = "check"
    /\ UNCHANGED <<patterns, date_str, date_str_clean, exc, ret, recleaned, libc_pads_year>>
    /\ UNCHANGED batch

\* the range parser raises: date_parse runs in the except clause, and what it
\* raises leaves parse_date_string
DateParseEnds(res) ==
    /\ via' = res.by
    /\ IF res.kind = "ok"
       THEN r' = res.val /\ pc' = "check" /\ exc' = exc
       ELSE r' = r /\ pc' = "raised" /\ exc' = res.kind

RangeParserRaises ==
    /\ pc = "try"
    /\ DateParseEnds(date_parse(date_str_clean))
    /\ UNCHANGED <<patterns, date_str, date_str_clean, ret, recleaned, libc_pads_year>>
    /\ UNCHANGED batch

\* if is_sane_date(r): return [date_str, r[0], r[1]]; return None
Return ==
    /\ pc = "check"
    /\ ret' = IF is_sane_date(r) THEN ReturnList(date_str, r[1], r[2]) ELSE ReturnNone
    /\ pc' = "returned"
    /\ UNCHANGED <<patterns, date_str, date_str_clean, r, via, exc, recleaned, libc_pads_year>>
    /\ UNCHANGED batch

\* the caller is done with the result (or the exception) of the call
NextRecord ==
    /\ pc \in {"returned", "raised"}
    /\ pc' = "idle"
    /\ date_str' = ""
    /\ date_str_clean' = ""
    /\ r' = NoRange
    /\ via' = ""
    /\ exc' = ""
    /\ ret' = ReturnNone
    /\ UNCHANGED <<patterns, recleaned, libc_pads_year>>
    /\ UNCHANGED batch

Next ==
    \/ Import
    \/ \E x \in Inputs : Call(x)
    \/ \E a \in ExtDatetimes, b \in ExtDatetimes : RangeParserReturns(a, b)
    \/ RangeParserRaises
    \/ Return
    \/ NextRecord

Spec == Init /\ [][Next]_vars

(***************************************************************************)
(* date_clean as a pure function: applied to an input, then to its own     *)
(* result.                                                                 *)
(***************************************************************************)
InitClean ==
    /\ patterns = <<>>
    /\ pc = "clean0"
    /\ date_str \in CleanInputs
    /\ date_str_clean = ""
    /\ r = NoRange
    /\ via = ""
    /\ exc = ""
    /\ ret = ReturnNone
    /\ recleaned = ""
    /\ libc_pads_year = FALSE
    /\ records = <<>>
    /\ position = 1
    /\ results = <<>>
    /\ malformed_dates = <<>>
    /\ error_log = FALSE
    /\ error_log_file = <<>>

CleanOnce ==
    /\ pc = "clean0"
    /\ date_str_clean' = date_clean(date_str)
    /\ pc' = "clean1"
    /\ UNCHANGED <<patterns, date_str, r, via, exc, ret, recleaned, libc_pads_year>>
    /\ UNCHANGED batch

CleanAgain ==
    /\ pc = "clean1"
    /\ recleaned' = date_clean(date_str_clean)
    /\ pc' = "clean2"
    /\ UNCHANGED <<patterns, date_str, date_str_clean, r, via, exc, ret, libc_pads_year>>
    /\ UNCHANGED batch

NextClean == CleanOnce \/ CleanAgain

SpecClean == InitClean /\ [][NextClean]_vars

(***************************************************************************)
(* parse_csv: the records of a CSV are normalized one after another by     *)
(* parse_date_string; nothing in parse_csv or main catches an exception.   *)
(***************************************************************************)
\* the CSVs of the model hold at most this many records
MaxRecords == 3

RecordInputs == {" ", "1999", " unknown", "after 1900 "}

RECURSIVE RecordLists(_)
RecordLists(n) ==
    IF n = 0 THEN {<<>>}
    ELSE RecordLists(n - 1)
             \cup {Append(l, x) : l \in {m \in RecordLists(n - 1) : Len(m) = n - 1},
                                  x \in RecordInputs}

\* what handle_error_log writes: nothing without args.error_log, else the
\* header line and one line per malformed date
handle_error_log(log, dates) == IF ~log THEN <<>> ELSE <<"invalidDates">> \o dates

InitCsv ==
    /\ patterns = add_patterns(<<>>)
    /\ pc = "csv_open"
    /\ date_str = ""
    /\ date_str_clean = ""
    /\ r = NoRange
    /\ via = ""
    /\ exc = ""
    /\ ret = ReturnNone
    /\ recleaned = ""
    /\ libc_pads_year \in BOOLEAN
    /\ records \in RecordLists(MaxRecords)
    /\ position = 1
    /\ results = <<>>
    /\ malformed_dates = <<>>
    /\ error_log \in BOOLEAN
    /\ error_log_file = <<>>

\* the CSV is opened: sys.exit(1) unless its header holds the date column
CsvOpen(column_found) ==
    /\ pc = "csv_open"
    /\ pc' = IF column_found THEN "csv_loop" ELSE "csv_exit"
    /\ UNCHANGED <<patterns, date_str, date_str_clean, r, via, exc, ret, recleaned,
                   libc_pads_year, batch>>

\* for record in reader: an empty date string is skipped, any other is given
\* to parse_date_string (here up to its call of the range parser)
CsvRecord ==
    /\ pc = "csv_loop"
    /\ position <= Len(records)
    /\ date_str' = strip(records[position])
    /\ IF strip(records[position]) = ""
       THEN /\ pc' = "csv_loop"
            /\ position' = position + 1
            /\ UNCHANGED <<date_str_clean, r, via, exc, ret>>
       ELSE /\ pc' = "try"
            /\ date_str_clean' = date_clean(strip(records[position]))
            /\ r' = NoRange
            /\ via' = ""
            /\ exc' = ""
            /\ ret' = ReturnNone
            /\ position' = position
    /\ UNCHANGED <<patterns, recleaned, libc_pads_year, records, results, malformed_dates,
                   error_log, error_log_file>>

\* parse_date_string has returned: if r: results.append(r); if not r and
\* args.error_log: malformed_dates.append(date_str)
CsvCollect ==
    /\ pc = "returned"
    /\ results' = IF ret.is_none THEN results
                  ELSE Append(results, <<ret.original, ret.start, ret.end>>)
    /\ malformed_dates' = IF ret.is_none /\ error_log THEN Append(malformed_dates, date_str)
                          ELSE malformed_dates
    /\ position' = position + 1
    /\ pc' = "csv_loop"
    /\ UNCHANGED <<patterns, date_str, date_str_clean, r, via, exc, ret, recleaned,
                   libc_pads_year, records, error_log, error_log_file>>

\* parse_date_string has raised: the exception leaves the loop, parse_csv and main
CsvRaise ==
    /\ pc = "raised"
    /\ pc' = "csv_raised"
    /\ UNCHANGED <<patterns, date_str, date_str_clean, r, via, exc, ret, recleaned,
                   libc_pads_year, batch>>

\* the reader is exhausted: handle_error_log(args, malformed_dates); return results
CsvEnd ==
    /\ pc = "csv_loop"
    /\ position > Len(records)
    /\ error_log_file' = handle_error_log(error_log, malformed_dates)
    /\ pc' = "csv_done"
    /\ UNCHANGED <<patterns, date_str, date_str_clean, r, via, exc, ret, recleaned,
                   libc_pads_year, records, position, results, malformed_dates, error_log>>

NextCsv ==
    \/ \E column_found \in BOOLEAN : CsvOpen(column_found)
    \/ CsvRecord
    \/ \E a \in ExtDatetimes, b \in ExtDatetimes : RangeParserReturns(a, b)
    \/ RangeParserRaises
    \/ Return
    \/ CsvCollect
    \/ CsvRaise
    \/ CsvEnd

SpecCsv == InitCsv /\ [][NextCsv]_vars

(***************************************************************************)
(* What the properties below are stated with.                              *)
(***************************************************************************)
IsDigits(s) == \A i \in 1..Len(s) : Chr(s, i) \in Digit

\* the Gregorian calendar: divisible by 4, except centuries not divisible by 400
DaysIn(y, m) ==
    IF m \in {4, 6, 9, 11} THEN 30
    ELSE IF m # 2 THEN 31
    ELSE IF y % 400 = 0 THEN 29
    ELSE IF y % 100 = 0 THEN 28
    ELSE IF y % 4 = 0 THEN 29
    ELSE 28

\* None, or "YYYY-MM-DD" naming a calendar date of a year in the window
WellFormedBound(b) ==
    \/ b = None
    \/ /\ Len(b.v) = 10
       /\ IsDigits(SubSeq(b.v, 1, 4)) /\ Chr(b.v, 5) = "-"
       /\ IsDigits(SubSeq(b.v, 6, 7)) /\ Chr(b.v, 8) = "-"
       /\ IsDigits(SubSeq(b.v, 9, 10))
       /\ int(SubSeq(b.v, 1, 4)) \in min_year..max_year
       /\ int(SubSeq(b.v, 6, 7)) \in 1..12
       /\ int(SubSeq(b.v, 9, 10)) \in 1..DaysIn(int(SubSeq(b.v, 1, 4)), int(SubSeq(b.v, 6, 7)))

InWindowYears == {format_04d(y) : y \in min_year..max_year}

\* the range parser raised, so the rule engine (date_parse) decided
ByRules == via # "" /\ via # "daterangeparser"

\* the call has ended: it returned or an exception left it
Ended == pc \in {"returned", "raised"}

\* date_parse has ended: it returned a range or raised
Parsed == pc \in {"check", "raised"} /\ ByRules

(***************************************************************************)
(* C1                                                                      *)
(***************************************************************************)
\* C1: for an input the range parser cannot parse, that matches no pattern and
\* that no fallback template parses, parse_date_string returns None and no
\* exception leaves it.
C1_UnparseableReturnsNone ==
    (Ended /\ via = "no match") => (pc = "returned" /\ ret = ReturnNone)

(***************************************************************************)
(* C2                                                                      *)
(***************************************************************************)
\* C2: the registry holds the handlers in declaration order pattern1, pattern2,
\* ..., pattern27, and date_parse ends as the first handler in that order whose
\* regex is found in the cleaned string ends (as the fallback, when none is).
C2_DeclarationOrder ==
    /\ pc # "import" => patterns = declared_handlers
    /\ Parsed =>
          LET first == date_parse_with(declared_handlers, date_str_clean)
          IN  /\ via = first.by
              /\ IF first.kind = "ok"
                 THEN pc = "check" /\ r = first.val
                 ELSE pc = "raised" /\ exc = first.kind

(***************************************************************************)
(* C3                                                                      *)
(***************************************************************************)
\* C3: whichever stage produced the range, every result parse_date_string
\* returns has each bound either null or a well-formed YYYY-MM-DD calendar date
\* of a year in 1000..2100; a range with a bound outside is returned as None.
C3_ReturnedBoundsInWindow ==
    pc = "returned" =>
        \/ ret = ReturnNone
        \/ /\ ret = ReturnList(date_str, r[1], r[2])
           /\ WellFormedBound(ret.start)
           /\ WellFormedBound(ret.end)

\* the range parser's (1999-12-31, None) has been returned
C3_Witness ==
    /\ pc = "returned"
    /\ via = "daterangeparser"
    /\ ret = ReturnList(date_str, Str("1999-12-31"), None)

(***************************************************************************)
(* C4                                                                      *)
(***************************************************************************)
\* C4: for every year YYYY of 1000..2100, when the range parser yields nothing,
\* the bare string "YYYY" is returned as (YYYY-01-01, YYYY-12-31).
C4_BareYear ==
    (Ended /\ ByRules /\ date_str \in InWindowYears) =>
        ret = ReturnList(date_str, Str(date_str \o "-01-01"), Str(date_str \o "-12-31"))

C4_Witness ==
    /\ pc = "returned"
    /\ via = "pattern21"
    /\ ret = ReturnList("2100", Str("2100-01-01"), Str("2100-12-31"))

(***************************************************************************)
(* C5                                                                      *)
(***************************************************************************)
AfterYear ==
    /\ Len(date_str) = 10
    /\ lower(SubSeq(date_str, 1, 6)) = "after "
    /\ SubSeq(date_str, 7, 10) \in InWindowYears

BeforeYear ==
    /\ Len(date_str) = 11
    /\ lower(SubSeq(date_str, 1, 7)) = "before "
    /\ SubSeq(date_str, 8, 11) \in InWindowYears

\* C5: for an in-window year YYYY, "after YYYY" is returned as (YYYY-12-31, null)
\* and "before YYYY" as (null, YYYY-01-01): the sanity filter accepts a range
\* with one null bound.
C5_AfterBefore ==
    (Ended /\ ByRules) =>
        /\ AfterYear =>
              ret = ReturnList(date_str, Str(SubSeq(date_str, 7, 10) \o "-12-31"), None)
        /\ BeforeYear =>
              ret = ReturnList(date_str, None, Str(SubSeq(date_str, 8, 11) \o "-01-01"))

C5_Witness ==
    /\ pc = "returned"
    /\ via = "pattern3"
    /\ ret = ReturnList("after 1900", Str("1900-12-31"), None)

(***************************************************************************)
(* C6                                                                      *)
(***************************************************************************)
TwoYearShapes ==
    [a \in PairYears, b \in PairYears |->
        {"between " \o a \o " and " \o b, a \o " or " \o b, a \o "-" \o b,
         a \o " -" \o b, a \o "- " \o b, a \o " - " \o b, a \o " " \o b}]

\* C6: for four-digit years Y1, Y2 each of "between Y1 and Y2", "Y1 or Y2",
\* "Y1-Y2" (optional spaces around the dash) and "Y1 Y2" resolves in date_parse
\* to (Y1-01-01, Y2-12-31).
C6_TwoYears ==
    Parsed =>
        \A a \in PairYears, b \in PairYears :
            date_str_clean \in TwoYearShapes[a, b] =>
                /\ pc = "check"
                /\ r = <<Str(a \o "-01-01"), Str(b \o "-12-31")>>

C6_Witness ==
    /\ pc = "check"
    /\ via = "pattern22"
    /\ date_str_clean = "1950 2000"
    /\ r = <<Str("1950-01-01"), Str("2000-12-31")>>

(***************************************************************************)
(* C7                                                                      *)
(***************************************************************************)
DecadeShape ==
    /\ Len(date_str_clean) = 4
    /\ IsDigits(SubSeq(date_str_clean, 1, 3))
    /\ Chr(date_str_clean, 4) = "-"

CenturyShape ==
    /\ Len(date_str_clean) \in {3, 4}
    /\ IsDigits(SubSeq(date_str_clean, 1, 2))
    /\ SubSeq(date_str_clean, 3, Len(date_str_clean)) \in {"-", "--", "?", "??"}

\* C7: the cleaned string "DDD-" resolves to the decade (DDD0-01-01, DDD9-12-31)
\* and the cleaned strings "CC-", "CC--", "CC?", "CC??" to the century
\* (CC00-01-01, CC99-12-31).
C7_DecadeCentury ==
    Parsed =>
        /\ DecadeShape =>
              /\ pc = "check"
              /\ r = <<Str(SubSeq(date_str_clean, 1, 3) \o "0-01-01"),
                       Str(SubSeq(date_str_clean, 1, 3) \o "9-12-31")>>
        /\ CenturyShape =>
              /\ pc = "check"
              /\ r = <<Str(SubSeq(date_str_clean, 1, 2) \o "00-01-01"),
                       Str(SubSeq(date_str_clean, 1, 2) \o "99-12-31")>>

C7_Witness ==
    /\ pc = "check"
    /\ via = "pattern2"
    /\ date_str_clean = "195-"
    /\ r = <<Str("1950-01-01"), Str("1959-12-31")>>

(***************************************************************************)
(* C8                                                                      *)
(***************************************************************************)
\* the end bound is an end of month: always for pattern23 and the two month
\* templates, for pattern25 and pattern26 when the string ends in no day
EndOfMonthCase ==
    /\ pc = "check"
    /\ \/ via \in {"pattern23", "normalize_year_month", "normalize_month_year"}
       \/ /\ via \in {"pattern25", "pattern26"}
          /\ Chr(date_str_clean, Len(date_str_clean)) \notin Digit

\* C8: every end-of-month bound (pattern23, pattern25 and pattern26 without an
\* end day, normalize_year_month, normalize_month_year) has the real length of
\* its month in its year as its day, by the Gregorian rule.
C8_EndOfMonth ==
    EndOfMonthCase =>
        /\ Len(r[2].v) >= 7
        /\ int(SubSeq(r[2].v, Len(r[2].v) - 1, Len(r[2].v)))
               = DaysIn(int(SubSeq(r[2].v, 1, Len(r[2].v) - 6)),
                        int(SubSeq(r[2].v, Len(r[2].v) - 4, Len(r[2].v) - 3)))

C8_Witness ==
    /\ pc = "check"
    /\ via = "pattern23"
    /\ date_str_clean = "1999-january 2024-february"
    /\ r[2] = Str("2024-02-29")

(***************************************************************************)
(* C9                                                                      *)
(***************************************************************************)
RealDates ==
    {t[1] \o "-" \o format_02d(t[2]) \o "-" \o format_02d(t[3]) :
        t \in {u \in MonthYears \X (1..12) \X (1..31) : u[3] <= DaysIn(int(u[1]), u[2])}}

\* C9: an input "YYYY-MM-DD" naming a real calendar date resolves in the rule
\* engine to start = end = that date.
C9_ExactDate ==
    (Parsed /\ date_str \in RealDates) =>
        /\ pc = "check"
        /\ r = <<Str(date_str), Str(date_str)>>

(***************************************************************************)
(* C10                                                                     *)
(***************************************************************************)
\* C10: date_clean is idempotent: date_clean(date_clean(x)) = date_clean(x) for
\* every input x.
C10_Idempotent == pc = "clean2" => recleaned = date_str_clean

(***************************************************************************)
(* C11                                                                     *)
(***************************************************************************)
RECURSIVE NonEmpty(_)
NonEmpty(l) ==
    IF l = <<>> THEN 0 ELSE (IF strip(Head(l)) = "" THEN 0 ELSE 1) + NonEmpty(Tail(l))

\* C11: a record that cannot be normalized is never fatal to a batch: no
\* exception leaves parse_csv, every record is processed, and each non-empty
\* record ends in the results or (with an error log) among the malformed dates.
C11_BatchNeverFatal ==
    /\ pc # "csv_raised"
    /\ pc = "csv_done" =>
          /\ position = Len(records) + 1
          /\ error_log => Len(results) + Len(malformed_dates) = NonEmpty(records)

(***************************************************************************)
(* C12                                                                     *)
(***************************************************************************)
\* how date_parse would end if a handler that raises were a local failure:
\* the later handlers whose regex is found are tried, then the fallback
RECURSIVE FallThrough(_, _, _)
FallThrough(registry, ds, k) ==
    IF k > Len(registry) THEN fallback(title(ds), 1)
    ELSE IF ~re_search(regex_of(registry[k]), ds).matched
         THEN FallThrough(registry, ds, k + 1)
         ELSE ok_or(By(call_handler(registry[k], ds, re_search(regex_of(registry[k]), ds)),
                       registry[k]),
                    FallThrough(registry, ds, k + 1))

\* a handler of the registry was called and raised
HandlerRaised == Parsed /\ pc = "raised" /\ via \in {patterns[k] : k \in 1..Len(patterns)}

\* C12: when the first matching pattern's handler raises (no real calendar date,
\* unknown month), date_parse does not end there: it ends as the next candidate
\* strategies (later patterns, then the fallback templates) end.
C12_HandlerFailureFallsThrough ==
    HandlerRaised =>
        /\ FallThrough(patterns, date_str_clean, 1).kind # "ok"
        /\ exc = FallThrough(patterns, date_str_clean, 1).kind
        /\ via = FallThrough(patterns, date_str_clean, 1).by

(***************************************************************************)
(* C13                                                                     *)
(***************************************************************************)
\* the handlers that build a calendar date from captured month, day and year
ExactDateHandlers ==
    {"pattern18", "pattern19", "pattern20", "pattern24", "pattern25", "pattern26"}

\* C13: when pattern18, pattern19, pattern20, pattern24, pattern25 or pattern26
\* meets an impossible date, what leaves date_parse is NormalizeDateException,
\* never a raw ValueError.
C13_ImpossibleDateIsStructured ==
    (Parsed /\ pc = "raised" /\ via \in ExactDateHandlers) =>
        exc = "NormalizeDateException"

(***************************************************************************)
(* C14                                                                     *)
(***************************************************************************)
\* date_parse returned what an exact-date template of the fallback returned
ExactTemplate ==
    /\ Parsed
    /\ pc = "check"
    /\ via \in {"normalize_year_month_day", "normalize_month_day_year"}

\* the texts "Year MonthName Day" and "MonthName Day Year" of a date
TemplateTexts(y, m, d) ==
    {y \o " " \o month_name[m] \o sep \o dd : sep \in {" ", ""}, dd \in {str(d), format_02d(d)}}
        \cup {month_name[m] \o " " \o dd \o " " \o y : dd \in {str(d), format_02d(d)}}

\* e is "Y-MM-DD", a calendar date, and text names that date
NamesDate(text, e) ==
    /\ Len(e) >= 7
    /\ IsDigits(SubSeq(e, 1, Len(e) - 6))
    /\ IsDigits(SubSeq(e, Len(e) - 4, Len(e) - 3))
    /\ IsDigits(SubSeq(e, Len(e) - 1, Len(e)))
    /\ int(SubSeq(e, Len(e) - 4, Len(e) - 3)) \in 1..12
    /\ int(SubSeq(e, Len(e) - 1, Len(e)))
           \in 1..DaysIn(int(SubSeq(e, 1, Len(e) - 6)), int(SubSeq(e, Len(e) - 4, Len(e) - 3)))
    /\ text \in TemplateTexts(format_04d(int(SubSeq(e, 1, Len(e) - 6))),
                              int(SubSeq(e, Len(e) - 4, Len(e) - 3)),
                              int(SubSeq(e, Len(e) - 1, Len(e))))

\* C14 as stated: a range returned by an exact-date template of the fallback
\* has both bounds equal to the parsed date.
C14_ExactTemplateBothBounds ==
    ExactTemplate =>
        /\ isinstance_str(r[1])
        /\ NamesDate(date_str_clean, r[1].v)
        /\ r[2] = r[1]

\* C14 as amended: a range returned by an exact-date template of the fallback
\* has the parsed date as its start and null as its end.
C14_ExactTemplateStartOnly ==
    ExactTemplate =>
        /\ isinstance_str(r[1])
        /\ NamesDate(date_str_clean, r[1].v)
        /\ r[2] = None

C14_Witness ==
    /\ pc = "check"
    /\ via = "normalize_month_day_year"
    /\ date_str_clean = "january 30 1900"
    /\ r = <<Str("1900-01-30"), None>>

(***************************************************************************)
(* C15                                                                     *)
(***************************************************************************)
\* no regex of the registry is found in the cleaned string
NoPatternFound ==
    \A k \in 1..Len(patterns) : ~re_search(regex_of(patterns[k]), date_str_clean).matched

\* the title-cased string contains a full month name
HasMonthName == \E i \in 1..Len(long_months) : contains(title(date_str_clean), long_months[i])

TemplateOrder ==
    <<"normalize_year_month_day", "normalize_year_month", "normalize_month_year",
      "normalize_month_day_year">>

\* what the k-th template makes of the title-cased string
TemplateResult(k) ==
    CASE k = 1 -> normalize_year_month_day(title(date_str_clean))
      [] k = 2 -> normalize_year_month(title(date_str_clean))
      [] k = 3 -> normalize_month_year(title(date_str_clean))
      [] k = 4 -> normalize_month_day_year(title(date_str_clean))

\* the templates that parse the whole string
Parsing == {k \in 1..4 : TemplateResult(k).kind = "ok"}

\* C15: the fallback templates are reached only when no registered pattern is
\* found and only if the title-cased string holds a full month name; they are
\* tried in the order year-month-day, year-month, month-year, month-day-year,
\* the first that parses the whole string decides, and when none does
\* date_parse ends in NormalizeDateException with no partial result.
C15_FallbackOrder ==
    Parsed =>
        IF ~NoPatternFound
        THEN via \in {patterns[k] : k \in 1..Len(patterns)}
        ELSE IF ~HasMonthName \/ Parsing = {}
        THEN pc = "raised" /\ exc = "NormalizeDateException" /\ via = "no match" /\ r = NoRange
        ELSE /\ pc = "check"
             /\ \E k \in Parsing :
                   /\ \A j \in Parsing : k <= j
                   /\ via = TemplateOrder[k]
                   /\ r = TemplateResult(k).val

C15_Witness ==
    /\ pc = "check"
    /\ NoPatternFound
    /\ via = "normalize_month_year"
    /\ date_str_clean = "february 1900"
    /\ r = <<Str("1900-02-01"), Str("1900-02-28")>>

(***************************************************************************)
(* C16                                                                     *)
(***************************************************************************)
\* C16: a range with both bounds null is a failure: date_parse never returns
\* one, and when one reaches the sanity filter parse_date_string returns None.
C16_BothNullIsFailure ==
    /\ (Parsed /\ pc = "check") => r # <<None, None>>
    /\ (pc = "returned" /\ r = <<None, None>>) => ret = ReturnNone

(***************************************************************************)
(* C17                                                                     *)
(***************************************************************************)
\* the raw input is "Y1, Y2"
CommaYears ==
    /\ Len(date_str) = 10
    /\ IsDigits(SubSeq(date_str, 1, 4))
    /\ SubSeq(date_str, 5, 6) = ", "
    /\ IsDigits(SubSeq(date_str, 7, 10))

\* C17 as stated: the raw shape "Y1, Y2" resolves, through cleaning and the
\* registry, to (Y1-01-01, Y1-12-31): the first year for both bounds.
C17_CommaYearsFirstYearTwice ==
    (Parsed /\ CommaYears) =>
        /\ pc = "check"
        /\ r = <<Str(SubSeq(date_str, 1, 4) \o "-01-01"),
                 Str(SubSeq(date_str, 1, 4) \o "-12-31")>>

\* C17 as amended: the raw shape "Y1, Y2" is cleaned to "Y1 Y2" and resolves
\* to (Y1-01-01, Y2-12-31): the end comes from the second year.
C17_CommaYearsSecondYearEnds ==
    (Parsed /\ CommaYears) =>
        /\ date_str_clean = SubSeq(date_str, 1, 4) \o " " \o SubSeq(date_str, 7, 10)
        /\ pc = "check"
        /\ r = <<Str(SubSeq(date_str, 1, 4) \o "-01-01"),
                 Str(SubSeq(date_str, 7, 10) \o "-12-31")>>

C17_Witness ==
    /\ pc = "check"
    /\ date_str = "1900, 1950"
    /\ via = "pattern22"
    /\ r = <<Str("1900-01-01"), Str("1950-12-31")>>

(***************************************************************************)
(* C18                                                                     *)
(***************************************************************************)
\* C18: the registry is built once, at import, with exactly one binding for
\* each of the 27 handlers, and no step after the import (a call that
\* returns, a call that raises, the next call) changes it.
C18_RegistryBuiltOnce ==
    [][IF pc = "import"
       THEN /\ Len(patterns') = NumPatterns
            /\ {patterns'[k] : k \in 1..Len(patterns')}
                   = {declared_handlers[k] : k \in 1..NumPatterns}
       ELSE patterns' = patterns]_vars

\* a call has raised and the registry is all there
C18_Witness ==
    /\ pc = "raised"
    /\ exc = "ValueError"
    /\ Len(patterns) = NumPatterns

====
